---- MODULE Spec2Model ----
(***************************************************************************)
(* WebTranslateClient (src/web_translate_client.py): the connection        *)
(* lifecycle and message dispatch of one client instance on one asyncio    *)
(* event loop.  A step of the model is what one coroutine runs between two *)
(* awaits: the event loop never interleaves anything inside it.            *)
(*                                                                         *)
(* Coroutines: the caller's calls (connect, send_audio_data,               *)
(* send_image_frame, send_end_signal, close), and the two tasks each       *)
(* successful connect() creates (_heartbeat_loop, _receive_loop).          *)
(* Collaborators, modelled by what the code relies on: the websocket       *)
(* (connect/send/recv/close), the five registered callbacks (each may      *)
(* suspend, return or raise), the clock.                                   *)
(***************************************************************************)
EXTENDS Integers, Sequences, FiniteSets, TLC

----------------------------------------------------------------------------
(* Bounds of the model. *)

\* caller coroutines that may be running at the same time
MaxCallers == 2
\* calls the callers start in one behaviour
MaxOps == 3
\* transports websockets.connect may hand out in one behaviour
MaxTransports == 2
\* inbound frames the server delivers in one behaviour
MaxFrames == 1
\* inbound frames the server delivers in one behaviour of SpecDispatch
MaxDispatchFrames == 3
\* the clock stops advancing here
MaxTime == 120

(* Program constants. *)

\* asyncio.sleep(25)
HeartbeatInterval == 25
\* time.time() - self.last_activity_time > 30
StaleThreshold == 30
\* asyncio.wait_for(self.websocket.recv(), timeout=60)
RecvTimeout == 60

Callers == 1..MaxCallers
Transports == 1..MaxTransports

\* Python's None, for a websocket, a task or a callback slot
None == 0
\* the callables a caller may register
Handlers == {1, 2}
\* a dict key that is not there
Absent == "<absent>"

\* close codes the server may close with
CloseCodes == {1000, 1006}
\* the code a completed local close() leaves on the connection
LocalCloseCode == 1000

----------------------------------------------------------------------------
VARIABLES
    \* fields of WebTranslateClient
    is_connected, websocket, last_activity_time, heartbeat_task, receive_task,
    on_text_callback, on_audio_callback, on_error_callback, on_close_callback,
    on_open_callback,
    \* the event loop's coroutines
    callers, hb, rx,
    \* the collaborators: clock, websocket connections, the server's frames
    now, transports, inbox,
    \* what the callbacks saw, in order
    cbLog,
    \* bookkeeping of the calls made
    ops, closed_returned

fields == <<is_connected, websocket, last_activity_time, heartbeat_task, receive_task>>
slots == <<on_text_callback, on_audio_callback, on_error_callback, on_close_callback,
           on_open_callback>>
tasks == <<hb, rx>>
world == <<now, transports, inbox>>
book == <<ops, closed_returned>>
vars == <<fields, slots, callers, tasks, world, cbLog, book>>

----------------------------------------------------------------------------
(* base64.b64decode(s) (binascii.a2b_base64, not strict), on a string of   *)
(* symbols: 0..63 a character of the alphabet by its value, B64Pad the     *)
(* character "=", anything above a character outside the alphabet.         *)

B64Pad == 64

\* the decoder's state after the symbols s[i..], from quad position q, pending bits left,
\* run of pads so far, bytes out so far: [ok, bytes]
RECURSIVE B64Scan(_, _, _, _, _, _)
B64Scan(s, i, q, left, pads, out) ==
    IF i > Len(s)
    THEN [ok |-> q = 0, bytes |-> out]
    ELSE LET ch == s[i] IN
         IF ch = B64Pad
         THEN IF q >= 2 /\ q + pads + 1 >= 4
              THEN [ok |-> TRUE, bytes |-> out]
              ELSE B64Scan(s, i + 1, q, left, IF q >= 2 THEN pads + 1 ELSE pads, out)
         ELSE IF ch >= 64
         THEN B64Scan(s, i + 1, q, left, pads, out)
         ELSE CASE q = 0 -> B64Scan(s, i + 1, 1, ch, 0, out)
                [] q = 1 -> B64Scan(s, i + 1, 2, ch % 16, 0,
                                    Append(out, (left * 4 + ch \div 16) % 256))
                [] q = 2 -> B64Scan(s, i + 1, 3, ch % 4, 0,
                                    Append(out, (left * 16 + ch \div 4) % 256))
                [] OTHER -> B64Scan(s, i + 1, 0, 0, 0,
                                    Append(out, (left * 64 + ch) % 256))

\* [ok |-> FALSE] is binascii.Error raised
b64decode(s) == B64Scan(s, 1, 0, 0, 0, <<>>)

\* "aGVsbG8=" (b"hello"), "aGVsbG8" (incorrect padding) and ""
AudioHello == <<26, 6, 21, 44, 27, 6, 60, B64Pad>>
AudioBadPadding == <<26, 6, 21, 44, 27, 6, 60>>
AudioEmpty == <<>>

----------------------------------------------------------------------------
(* Inbound messages.  json: what json.loads(message) does with the text    *)
(* ("invalid": raises; "object": a dict; "other": a list, number or        *)
(* string).  For a dict, each key the code looks at: absent, a dict        *)
(* ("object") or some other JSON value ("other"), and the values under it. *)

Message(json, output, text, has_audio, audio, error, code, message, type) ==
    [json |-> json, output |-> output, text |-> text, has_audio |-> has_audio,
     audio |-> audio, error |-> error, code |-> code, message |-> message,
     type |-> type]

OutputMessage(text, has_audio, audio) ==
    Message("object", "object", text, has_audio, audio, "absent", Absent, Absent, Absent)
ErrorMessage(code, message) ==
    Message("object", "absent", Absent, FALSE, <<>>, "object", code, message, Absent)
TypeMessage(type) ==
    Message("object", "absent", Absent, FALSE, <<>>, "absent", Absent, Absent, type)
\* text that is not JSON
InvalidJson ==
    Message("invalid", "absent", Absent, FALSE, <<>>, "absent", Absent, Absent, Absent)
\* JSON that is no dict, e.g. [1, 2]
NotADict ==
    Message("other", "absent", Absent, FALSE, <<>>, "absent", Absent, Absent, Absent)
\* {"output": 5}
OutputNotADict ==
    Message("object", "other", Absent, FALSE, <<>>, "absent", Absent, Absent, Absent)

\* the frames of the protocol, as the server sends them
WellFormed ==
    { OutputMessage("hello", FALSE, <<>>),
      OutputMessage(Absent, TRUE, AudioHello),
      OutputMessage("hello", TRUE, AudioHello),
      OutputMessage("hello", TRUE, AudioEmpty),
      ErrorMessage("E1", "bad audio"),
      TypeMessage("heartbeat_response") }

\* payloads that are not frames of the protocol
Malformed ==
    { InvalidJson, NotADict, OutputNotADict,
      OutputMessage(Absent, TRUE, AudioBadPadding) }

\* what the server may send in SpecDispatch
DispatchMessages == WellFormed \cup Malformed \cup {ErrorMessage(Absent, Absent)}
\* what the server may send in Spec
CoreMessages == {OutputMessage("hello", FALSE, <<>>), InvalidJson}

----------------------------------------------------------------------------
(* Coroutines and collaborators. *)

\* a caller's coroutine: the call it runs, where it is suspended (or how the call
\* ended: "returned", "ignored" for the early return of a guard, "raised"), and the
\* websocket whose operation it awaits.  busy and late record how the call started.
IdleCaller == [op |-> "none", pc |-> "idle", ws |-> None, busy |-> FALSE, late |-> FALSE]
Ended == {"idle", "returned", "ignored", "raised"}
\* a call has ended: its coroutine is gone, how it ended is what the caller keeps
End(how) == [IdleCaller EXCEPT !.pc = how]
\* the coroutine a new call runs in: callers are interchangeable, the first free one
FreeCaller(c) ==
    /\ callers[c].pc \in Ended
    /\ \A d \in Callers : callers[d].pc \in Ended => c <= d
\* a task has ended
DoneTask(task) == [pc |-> "done", cancel |-> FALSE, deadline |-> 0, ws |-> None,
                   n |-> task.n, failed |-> task.failed]

\* a task: "none" until create_task, "start" until the event loop first runs it
\* n: the place in inbox of the message a receive loop handles (0: none yet);
\* failed: the await of _process_message at which a callback raised while it was
\* handled ("no": none did)
NoTask == [pc |-> "none", cancel |-> FALSE, deadline |-> 0, ws |-> None,
           n |-> 0, failed |-> "no"]

\* a websocket connection: its frames handed to send() in order, whether the init
\* frame's send has completed, whether close() was called on it, and the close code
NoTransport == [status |-> "none", code |-> 0, wire |-> <<>>,
                init_done |-> FALSE, close_called |-> FALSE]

\* str(e) of the exceptions the collaborators raise
ConnectError == "connect failed"
SendError == "connection closed"
CallbackError == "callback failed"
JsonError == "invalid json"

\* one invocation of a registered callback: its slot and argument, the connection the
\* invoking coroutine works on, and the place in inbox of the message it is invoked
\* for (0: for none)
Call(slot, text, code, bytes, ws, n) ==
    [slot |-> slot, text |-> text, code |-> code, bytes |-> bytes, ws |-> ws, n |-> n]
TextCall(text, ws, n) == Call("text", text, 0, <<>>, ws, n)
AudioCall(bytes, ws, n) == Call("audio", "", 0, bytes, ws, n)
ErrorCall(text, ws, n) == Call("error", text, 0, <<>>, ws, n)
ClosedCall(code, ws) == Call("closed", "", code, <<>>, ws, 0)
OpenedCall(ws) == Call("opened", "", 0, <<>>, ws, 0)

\* websocket.send(frame) is called on connection t
Hand(t, kind) == [transports EXCEPT ![t].wire = Append(@, kind)]
\* the awaited send on connection t completes normally (else it raises)
SendSucceeds(t) == transports[t].status = "open"

\* the transports not handed out yet
Fresh == {t \in Transports : transports[t].status = "none"}

Init ==
    /\ is_connected = FALSE
    /\ websocket = None
    /\ last_activity_time = 0
    /\ heartbeat_task = None
    /\ receive_task = None
    /\ on_text_callback = None
    /\ on_audio_callback = None
    /\ on_error_callback = None
    /\ on_close_callback = None
    /\ on_open_callback = None
    /\ callers = [c \in Callers |-> IdleCaller]
    /\ hb = [t \in Transports |-> NoTask]
    /\ rx = [t \in Transports |-> NoTask]
    /\ now = 0
    /\ transports = [t \in Transports |-> NoTransport]
    /\ inbox = <<>>
    /\ cbLog = <<>>
    /\ ops = 0
    /\ closed_returned = FALSE

----------------------------------------------------------------------------
(* set_callbacks(on_text=None, on_audio=None, on_error=None, on_close=None, *)
(* on_open=None): an omitted argument is its default, None.                 *)

SetSlots(on_text, on_audio, on_error, on_close, on_open) ==
    /\ on_text_callback' = on_text
    /\ on_audio_callback' = on_audio
    /\ on_error_callback' = on_error
    /\ on_close_callback' = on_close
    /\ on_open_callback' = on_open

\* the arguments of one call: a handler, or None for an argument left out
SlotArgs == [on_text : Handlers \cup {None}, on_audio : Handlers \cup {None},
             on_error : Handlers \cup {None}, on_close : Handlers \cup {None},
             on_open : Handlers \cup {None}]

\* the calls made in Spec: every slot given, or on_text alone
CoreSlotArgs ==
    { [on_text |-> 1, on_audio |-> 1, on_error |-> 1, on_close |-> 1, on_open |-> 1],
      [on_text |-> 2, on_audio |-> None, on_error |-> None, on_close |-> None,
       on_open |-> None] }

set_callbacks(a) ==
    /\ ops < MaxOps
    /\ ops' = ops + 1
    /\ SetSlots(a.on_text, a.on_audio, a.on_error, a.on_close, a.on_open)
    /\ UNCHANGED <<fields, callers, tasks, world, cbLog, closed_returned>>

----------------------------------------------------------------------------
(* connect() *)

\* a connect() is between its guard and the end of _send_init_message
Connecting == \E c \in Callers : callers[c].op = "connect" /\ callers[c].pc \in {"connecting", "init"}

\* ConnectFails re-raising without a report
ConnectFailsUnreported(c, text, t) ==
    /\ is_connected' = FALSE
    /\ cbLog' = cbLog
    /\ callers' = [callers EXCEPT ![c] = End("raised")]

\* the except clause of connect(): mark disconnected, report, re-raise
ConnectFails(c, text, t) ==
    /\ is_connected' = FALSE
    /\ IF on_error_callback # None
       THEN /\ cbLog' = Append(cbLog, ErrorCall(text, t, 0))
            /\ callers' = [callers EXCEPT ![c].pc = "error_cb"]
       ELSE /\ cbLog' = cbLog
            /\ callers' = [callers EXCEPT ![c] = End("raised")]

\* the guard, then await websockets.connect(...)
ConnectGuard(c) ==
    IF is_connected
    THEN callers' = [callers EXCEPT ![c] = End("ignored")]
    ELSE callers' = [callers EXCEPT ![c] = [IdleCaller EXCEPT !.op = "connect", !.pc = "connecting",
                                            !.busy = is_connected \/ Connecting]]

\* connect() suspends at websockets.connect, so the event loop first runs the tasks that
\* were created before the call: the call is taken to begin once they have run
ConnectCall(c) ==
    /\ FreeCaller(c)
    /\ \A k \in Transports : hb[k].pc # "start" /\ rx[k].pc # "start"
    /\ ops < MaxOps
    /\ ops' = ops + 1
    /\ closed_returned' = FALSE
    /\ ConnectGuard(c)
    /\ UNCHANGED <<fields, slots, tasks, world, cbLog>>

\* websockets.connect returns connection t; is_connected is set; _send_init_message
\* runs up to its await of websocket.send
ConnectEstablished(c) ==
    /\ callers[c].op = "connect" /\ callers[c].pc = "connecting"
    /\ \E t \in Fresh :
        /\ t = CHOOSE u \in Fresh : \A v \in Fresh : u <= v
        /\ websocket' = t
        /\ is_connected' = TRUE
        /\ last_activity_time' = now
        /\ transports' = [transports EXCEPT ![t] = [NoTransport EXCEPT !.status = "open",
                                                                      !.wire = <<"init">>]]
        /\ callers' = [callers EXCEPT ![c].pc = "init", ![c].ws = t]
    /\ UNCHANGED <<heartbeat_task, receive_task, slots, tasks, now, inbox, cbLog, book>>

\* websockets.connect raises
ConnectRefused(c) ==
    /\ callers[c].op = "connect" /\ callers[c].pc = "connecting"
    /\ ConnectFails(c, ConnectError, None)
    /\ UNCHANGED <<websocket, last_activity_time, heartbeat_task, receive_task, slots, tasks,
                   world, book>>

\* the two create_task calls, then the opened callback
StartTasks(c, t) ==
    /\ hb' = [hb EXCEPT ![t] = [NoTask EXCEPT !.pc = "start"]]
    /\ rx' = [rx EXCEPT ![t] = [NoTask EXCEPT !.pc = "start"]]
    /\ heartbeat_task' = t
    /\ receive_task' = t
    /\ IF on_open_callback # None
       THEN /\ cbLog' = Append(cbLog, OpenedCall(t))
            /\ callers' = [callers EXCEPT ![c].pc = "open_cb"]
       ELSE /\ cbLog' = cbLog
            /\ callers' = [callers EXCEPT ![c] = End("returned")]

\* the init frame's send completes
InitSent(c) ==
    /\ callers[c].op = "connect" /\ callers[c].pc = "init"
    /\ LET t == callers[c].ws IN
        IF SendSucceeds(t)
        THEN /\ transports' = [transports EXCEPT ![t].init_done = TRUE]
             /\ StartTasks(c, t)
             /\ UNCHANGED <<is_connected>>
        ELSE /\ ConnectFails(c, SendError, t)
             /\ UNCHANGED <<transports, tasks, heartbeat_task, receive_task>>
    /\ UNCHANGED <<websocket, last_activity_time, slots, now, inbox, book>>

\* the opened callback returns
OpenedReturns(c) ==
    /\ callers[c].op = "connect" /\ callers[c].pc = "open_cb"
    /\ callers' = [callers EXCEPT ![c] = End("returned")]
    /\ UNCHANGED <<fields, slots, tasks, world, cbLog, book>>

\* the opened callback raises
OpenedRaises(c) ==
    /\ callers[c].op = "connect" /\ callers[c].pc = "open_cb"
    /\ ConnectFails(c, CallbackError, callers[c].ws)
    /\ UNCHANGED <<websocket, last_activity_time, heartbeat_task, receive_task, slots, tasks,
                   world, book>>

\* the error callback of a failed connect() returns or raises: connect() raises
ConnectRaises(c) ==
    /\ callers[c].op = "connect" /\ callers[c].pc = "error_cb"
    /\ callers' = [callers EXCEPT ![c] = End("raised")]
    /\ UNCHANGED <<fields, slots, tasks, world, cbLog, book>>

----------------------------------------------------------------------------
(* send_audio_data(audio_data), send_image_frame(image_data),               *)
(* send_end_signal()                                                        *)

SendOps == {"send_audio_data", "send_image_frame", "send_end_signal"}
\* the frame each builds
FrameOf(op) ==
    CASE op = "send_audio_data" -> "audio"
      [] op = "send_image_frame" -> "image"
      [] OTHER -> "end"

\* the guard; then the frame is built and websocket.send awaited
SendGuard(c, op) ==
    IF ~is_connected \/ websocket = None
    THEN /\ callers' = [callers EXCEPT ![c] = End("ignored")]
         /\ transports' = transports
    ELSE /\ callers' = [callers EXCEPT ![c] = [IdleCaller EXCEPT !.op = op, !.pc = "send",
                                                !.ws = websocket, !.late = closed_returned]]
         /\ transports' = Hand(websocket, FrameOf(op))

SendCall(c, op) ==
    /\ FreeCaller(c)
    /\ ops < MaxOps
    /\ ops' = ops + 1
    /\ SendGuard(c, op)
    /\ UNCHANGED <<fields, slots, tasks, now, inbox, cbLog, closed_returned>>

\* the except clause: send_end_signal only logs, the other two report
SendFails(c) ==
    IF callers[c].op # "send_end_signal" /\ on_error_callback # None
    THEN /\ cbLog' = Append(cbLog, ErrorCall(SendError, callers[c].ws, 0))
         /\ callers' = [callers EXCEPT ![c].pc = "error_cb"]
    ELSE /\ cbLog' = cbLog
         /\ callers' = [callers EXCEPT ![c] = End("returned")]

\* the awaited send completes
SendDone(c) ==
    /\ callers[c].op \in SendOps /\ callers[c].pc = "send"
    /\ IF SendSucceeds(callers[c].ws)
       THEN /\ last_activity_time' = now
            /\ callers' = [callers EXCEPT ![c] = End("returned")]
            /\ cbLog' = cbLog
       ELSE /\ SendFails(c)
            /\ UNCHANGED last_activity_time
    /\ UNCHANGED <<is_connected, websocket, heartbeat_task, receive_task, slots, tasks,
                   world, book>>

\* the error callback of a failed send returns
SendReported(c) ==
    /\ callers[c].op \in SendOps /\ callers[c].pc = "error_cb"
    /\ callers' = [callers EXCEPT ![c] = End("returned")]
    /\ UNCHANGED <<fields, slots, tasks, world, cbLog, book>>

\* the error callback of a failed send raises, out of the except clause
SendReportRaises(c) ==
    /\ callers[c].op \in SendOps /\ callers[c].pc = "error_cb"
    /\ callers' = [callers EXCEPT ![c] = End("raised")]
    /\ UNCHANGED <<fields, slots, tasks, world, cbLog, book>>

----------------------------------------------------------------------------
(* close() *)

\* task.cancel(): a finished task ignores it
Cancel(task) == IF task.pc = "done" THEN task ELSE [task EXCEPT !.cancel = TRUE]

\* both cancels, then await websocket.close(); with no websocket, the flag is cleared
CloseCall(c) ==
    /\ FreeCaller(c)
    /\ ops < MaxOps
    /\ ops' = ops + 1
    /\ hb' = IF heartbeat_task # None
             THEN [hb EXCEPT ![heartbeat_task] = Cancel(@)] ELSE hb
    /\ rx' = IF receive_task # None
             THEN [rx EXCEPT ![receive_task] = Cancel(@)] ELSE rx
    /\ IF websocket # None
       THEN /\ callers' = [callers EXCEPT ![c] = [IdleCaller EXCEPT !.op = "close",
                                                   !.pc = "closing", !.ws = websocket]]
            /\ transports' = [transports EXCEPT ![websocket].close_called = TRUE]
            /\ UNCHANGED <<is_connected, closed_returned>>
       ELSE /\ callers' = [callers EXCEPT ![c] = End("returned")]
            /\ is_connected' = FALSE
            /\ closed_returned' = TRUE
            /\ UNCHANGED transports
    /\ UNCHANGED <<websocket, last_activity_time, heartbeat_task, receive_task, slots, now,
                   inbox, cbLog>>

\* websocket.close() returns: the connection is closed, the flag is cleared
CloseDone(c) ==
    /\ callers[c].op = "close" /\ callers[c].pc = "closing"
    /\ transports' = [transports EXCEPT ![callers[c].ws] =
                        IF @.status = "open"
                        THEN [@ EXCEPT !.status = "closed", !.code = LocalCloseCode]
                        ELSE @]
    /\ is_connected' = FALSE
    /\ callers' = [callers EXCEPT ![c] = End("returned")]
    /\ closed_returned' = TRUE
    /\ UNCHANGED <<websocket, last_activity_time, heartbeat_task, receive_task, slots, tasks,
                   now, inbox, cbLog, ops>>

\* websocket.close() raises: the except clause logs, the flag is left as it was
CloseFails(c) ==
    /\ callers[c].op = "close" /\ callers[c].pc = "closing"
    /\ callers' = [callers EXCEPT ![c] = End("returned")]
    /\ closed_returned' = TRUE
    /\ UNCHANGED <<fields, slots, tasks, world, cbLog, ops>>

----------------------------------------------------------------------------
(* _heartbeat_loop() *)

\* while self.is_connected: await asyncio.sleep(25)
HeartbeatLoop(task) ==
    IF is_connected
    THEN [task EXCEPT !.pc = "sleep", !.deadline = now + HeartbeatInterval]
    ELSE DoneTask(task)

\* the connection has been idle for more than the threshold
Stale == now - last_activity_time > StaleThreshold

\* the sleep is over: stop if disconnected, ping if stale, else sleep again
HeartbeatWakes(k) ==
    /\ hb[k].pc = "sleep" /\ ~hb[k].cancel
    /\ now >= hb[k].deadline
    /\ IF is_connected /\ Stale
       THEN /\ hb' = [hb EXCEPT ![k].pc = "send", ![k].ws = websocket]
            /\ transports' = Hand(websocket, "heartbeat")
       ELSE /\ hb' = [hb EXCEPT ![k] = HeartbeatLoop(@)]
            /\ transports' = transports
    /\ UNCHANGED <<fields, slots, callers, rx, now, inbox, cbLog, book>>

\* the ping's send completes; when it raises, the loop goes on unless disconnected
HeartbeatSent(k) ==
    /\ hb[k].pc = "send" /\ ~hb[k].cancel
    /\ last_activity_time' = IF SendSucceeds(hb[k].ws) THEN now ELSE last_activity_time
    /\ hb' = [hb EXCEPT ![k] = HeartbeatLoop(@)]
    /\ UNCHANGED <<is_connected, websocket, heartbeat_task, receive_task, slots, callers, rx,
                   world, cbLog, book>>

\* CancelledError is thrown into the task where it waits
HeartbeatCancelled(k) ==
    /\ hb[k].pc \in {"sleep", "send"} /\ hb[k].cancel
    /\ hb' = [hb EXCEPT ![k] = DoneTask(@)]
    /\ UNCHANGED <<fields, slots, callers, rx, world, cbLog, book>>

----------------------------------------------------------------------------
(* _receive_loop() and _process_message(data).  A step's outcome is the     *)
(* task's next position and the callbacks it invoked on the way.            *)

Outcome(task, calls) == [task |-> task, calls |-> calls]

\* while self.is_connected: await asyncio.wait_for(self.websocket.recv(), timeout=60)
ReceiveLoop(task) ==
    IF is_connected
    THEN [task EXCEPT !.pc = "recv", !.ws = websocket, !.deadline = now + RecvTimeout]
    ELSE DoneTask(task)

\* FormatError with the separator of the log line above it
FormatErrorAsLogged(code, message) ==
    (IF code = Absent THEN "unknown" ELSE code) \o " - "
        \o (IF message = Absent THEN "Unknown error" ELSE message)

\* f"{error_code}: {error_message}" with the defaults of error.get
FormatError(code, message) ==
    (IF code = Absent THEN "unknown" ELSE code) \o ": "
        \o (IF message = Absent THEN "Unknown error" ELSE message)

\* AudioPart handing the callback the field as received, not decoded
AudioPartUndecoded(task, m) ==
    IF m.has_audio /\ m.audio # <<>> /\ on_audio_callback # None
    THEN Outcome([task EXCEPT !.pc = "audio_cb"], <<AudioCall(m.audio, task.ws, task.n)>>)
    ELSE Outcome(ReceiveLoop(task), <<>>)

\* the audio part of an output: skipped when the field is missing or empty; a decoding
\* error is logged
AudioPart(task, m) ==
    IF m.has_audio /\ m.audio # <<>>
    THEN LET d == b64decode(m.audio) IN
         IF d.ok /\ on_audio_callback # None
         THEN Outcome([task EXCEPT !.pc = "audio_cb"], <<AudioCall(d.bytes, task.ws, task.n)>>)
         ELSE Outcome(ReceiveLoop(task), <<>>)
    ELSE Outcome(ReceiveLoop(task), <<>>)

\* _process_message up to its first await; whatever raises on an unexpected shape is
\* caught and logged by its except clause
process_message(task, m) ==
    IF m.json # "object"
    THEN Outcome(ReceiveLoop(task), <<>>)
    ELSE IF m.output # "absent"
    THEN IF m.output # "object"
         THEN Outcome(ReceiveLoop(task), <<>>)
         ELSE IF m.text # Absent /\ on_text_callback # None
         THEN Outcome([task EXCEPT !.pc = "text_cb"], <<TextCall(m.text, task.ws, task.n)>>)
         ELSE AudioPart(task, m)
    ELSE IF m.error # "absent"
    THEN IF m.error = "object" /\ on_error_callback # None
         THEN Outcome([task EXCEPT !.pc = "error_cb"],
                      <<ErrorCall(FormatError(m.code, m.message), task.ws, task.n)>>)
         ELSE Outcome(ReceiveLoop(task), <<>>)
    ELSE \* a heartbeat_response is logged, anything else is dropped
         Outcome(ReceiveLoop(task), <<>>)

\* json.loads, then _process_message; json.loads raising lands in the loop's
\* except Exception, which reports it
Received(task, m) ==
    IF m.json = "invalid"
    THEN IF on_error_callback # None
         THEN Outcome([task EXCEPT !.pc = "except_cb"], <<ErrorCall(JsonError, task.ws, task.n)>>)
         ELSE Outcome(ReceiveLoop(task), <<>>)
    ELSE process_message(task, m)

\* The event loop runs the two tasks connect() created for the first time: they were
\* queued one after the other by the two create_task calls, so the heartbeat loop runs
\* to its sleep and then the receive loop to its recv() with nothing in between.  A
\* task cancelled before its first run never runs.
TasksRun(k) ==
    /\ hb[k].pc = "start" /\ rx[k].pc = "start"
    /\ hb' = [hb EXCEPT ![k] = IF @.cancel THEN DoneTask(@) ELSE HeartbeatLoop(@)]
    /\ rx' = [rx EXCEPT ![k] = IF @.cancel THEN DoneTask(@) ELSE ReceiveLoop(@)]
    /\ UNCHANGED <<fields, slots, callers, world, cbLog, book>>

\* recv() returns message m, the next of at most limit messages
ReceiveMessage(k, m, limit) ==
    /\ rx[k].pc = "recv" /\ ~rx[k].cancel
    /\ transports[rx[k].ws].status = "open"
    /\ Len(inbox) < limit
    /\ inbox' = Append(inbox, m)
    /\ last_activity_time' = now
    /\ LET o == Received([rx[k] EXCEPT !.n = Len(inbox) + 1, !.failed = "no"], m) IN
        /\ rx' = [rx EXCEPT ![k] = o.task]
        /\ cbLog' = cbLog \o o.calls
    /\ UNCHANGED <<is_connected, websocket, heartbeat_task, receive_task, slots, callers, hb,
                   now, transports, book>>

\* wait_for raises TimeoutError (recv() on a closed connection raises at once instead):
\* a heartbeat is sent as a probe
ReceiveTimesOut(k) ==
    /\ rx[k].pc = "recv" /\ ~rx[k].cancel
    /\ transports[rx[k].ws].status = "open"
    /\ now >= rx[k].deadline
    /\ rx' = [rx EXCEPT ![k].pc = "probe", ![k].ws = websocket]
    /\ transports' = Hand(websocket, "heartbeat")
    /\ UNCHANGED <<fields, slots, callers, hb, now, inbox, cbLog, book>>

\* ReceiveProbed taking the timeout itself for the end of the connection
ReceiveProbedGivesUp(k) ==
    /\ rx[k].pc = "probe" /\ ~rx[k].cancel
    /\ rx' = [rx EXCEPT ![k] = DoneTask(@)]
    /\ is_connected' = FALSE
    /\ UNCHANGED <<websocket, last_activity_time, heartbeat_task, receive_task, slots, callers,
                   hb, world, cbLog, book>>

\* the probe's send completes: on with the loop, or disconnected and out of it
ReceiveProbed(k) ==
    /\ rx[k].pc = "probe" /\ ~rx[k].cancel
    /\ IF SendSucceeds(rx[k].ws)
       THEN /\ rx' = [rx EXCEPT ![k] = ReceiveLoop(@)]
            /\ UNCHANGED is_connected
       ELSE /\ rx' = [rx EXCEPT ![k] = DoneTask(@)]
            /\ is_connected' = FALSE
    /\ UNCHANGED <<websocket, last_activity_time, heartbeat_task, receive_task, slots, callers,
                   hb, world, cbLog, book>>

\* recv() raises ConnectionClosed: disconnected, the closed callback gets the code
ReceiveClosed(k) ==
    /\ rx[k].pc = "recv" /\ ~rx[k].cancel
    /\ transports[rx[k].ws].status = "closed"
    /\ is_connected' = FALSE
    /\ IF on_close_callback # None
       THEN /\ rx' = [rx EXCEPT ![k].pc = "close_cb"]
            /\ cbLog' = Append(cbLog, ClosedCall(transports[rx[k].ws].code, rx[k].ws))
       ELSE /\ rx' = [rx EXCEPT ![k] = DoneTask(@)]
            /\ cbLog' = cbLog
    /\ UNCHANGED <<websocket, last_activity_time, heartbeat_task, receive_task, slots, callers,
                   hb, world, book>>

Awaiting == {"text_cb", "audio_cb", "error_cb", "except_cb", "close_cb"}

\* the awaited callback returns: after the text callback the audio part, after the
\* closed callback the break, else the loop
AfterReturn(task) ==
    CASE task.pc = "text_cb" -> AudioPart(task, inbox[task.n])
      [] task.pc = "close_cb" -> Outcome(DoneTask(task), <<>>)
      [] OTHER -> Outcome(ReceiveLoop(task), <<>>)

ReceiveCallbackReturns(k) ==
    /\ rx[k].pc \in Awaiting /\ ~rx[k].cancel
    /\ LET o == AfterReturn(rx[k]) IN
        /\ rx' = [rx EXCEPT ![k] = o.task]
        /\ cbLog' = cbLog \o o.calls
    /\ UNCHANGED <<fields, slots, callers, hb, world, book>>

\* the awaited callback raises: inside _process_message it is caught and logged; in an
\* except clause of the loop it leaves the loop, through the outer except Exception
AfterRaise(task) ==
    IF task.pc \in {"except_cb", "close_cb"}
    THEN DoneTask(task)
    ELSE [ReceiveLoop(task) EXCEPT !.failed = task.pc]

ReceiveCallbackRaises(k) ==
    /\ rx[k].pc \in Awaiting /\ ~rx[k].cancel
    /\ rx' = [rx EXCEPT ![k] = AfterRaise(@)]
    /\ UNCHANGED <<fields, slots, callers, hb, world, cbLog, book>>

\* CancelledError is thrown into the task where it waits
ReceiveCancelled(k) ==
    /\ rx[k].pc \notin {"none", "start", "done"} /\ rx[k].cancel
    /\ rx' = [rx EXCEPT ![k] = DoneTask(@)]
    /\ UNCHANGED <<fields, slots, callers, hb, world, cbLog, book>>

----------------------------------------------------------------------------
(* The collaborators' own steps. *)

\* the server closes connection t with a close code
ServerCloses(t, code) ==
    /\ transports[t].status = "open"
    /\ transports' = [transports EXCEPT ![t].status = "closed", ![t].code = code]
    /\ UNCHANGED <<fields, slots, callers, tasks, now, inbox, cbLog, book>>

\* the pending timers: a heartbeat's sleep, a receive's timeout
Deadlines ==
    {hb[k].deadline : k \in {j \in Transports : hb[j].pc = "sleep"}}
        \cup {rx[k].deadline : k \in {j \in Transports : rx[j].pc = "recv"}}

\* a receive loop waits in recv() on a connection that is closed: recv() raises
ClosurePending ==
    \E k \in Transports : rx[k].pc = "recv" /\ transports[rx[k].ws].status = "closed"

\* time passes, up to the next timer; the event loop runs what is due (a timer, the
\* exception of a recv()) before it waits again
TimePasses ==
    /\ ~ClosurePending
    /\ \E d \in Deadlines :
        /\ d <= MaxTime
        /\ \A e \in Deadlines : now < e /\ d <= e
        /\ now' = d
    /\ UNCHANGED <<fields, slots, callers, tasks, transports, inbox, cbLog, book>>

----------------------------------------------------------------------------
(* Specifications.  Every one runs the same coroutines from the same       *)
(* initial state; they differ in which callers, messages and timers the   *)
(* environment drives them with.                                          *)

\* connect() of callers cs after its guard
ConnectNext(cs) ==
    \/ \E c \in cs : ConnectEstablished(c)
    \/ \E c \in cs : ConnectRefused(c)
    \/ \E c \in cs : InitSent(c)
    \/ \E c \in cs : OpenedReturns(c)
    \/ \E c \in cs : OpenedRaises(c)
    \/ \E c \in cs : ConnectRaises(c)

\* the sends, of the kinds in sends, and close() of callers cs
CallerNext(cs, sends) ==
    \/ \E c \in cs, op \in sends : SendCall(c, op)
    \/ \E c \in cs : SendDone(c)
    \/ \E c \in cs : SendReported(c)
    \/ \E c \in cs : SendReportRaises(c)
    \/ \E c \in cs : CloseCall(c)
    \/ \E c \in cs : CloseDone(c)
    \/ \E c \in cs : CloseFails(c)

\* the tasks' steps that wait for no timer, with the server sending at most limit
\* messages out of ms and closing with a code out of codes
TaskNext(ms, limit, codes) ==
    \/ \E k \in Transports : TasksRun(k)
    \/ \E k \in Transports, m \in ms : ReceiveMessage(k, m, limit)
    \/ \E k \in Transports : ReceiveClosed(k)
    \/ \E k \in Transports : ReceiveCallbackReturns(k)
    \/ \E k \in Transports : ReceiveCallbackRaises(k)
    \/ \E t \in Transports, code \in codes : ServerCloses(t, code)

\* the tasks that close() cancelled end
CancelNext ==
    \/ \E k \in Transports : HeartbeatCancelled(k)
    \/ \E k \in Transports : ReceiveCancelled(k)

\* the clock and the steps that wait for it
TimerNext ==
    \/ TimePasses
    \/ \E k \in Transports : HeartbeatWakes(k)
    \/ \E k \in Transports : HeartbeatSent(k)
    \/ \E k \in Transports : ReceiveTimesOut(k)
    \/ \E k \in Transports : ReceiveProbed(k)

\* the callbacks are registered before the first call
Setup == ops = 0 /\ \E a \in CoreSlotArgs : set_callbacks(a)

\* Spec: callers that call concurrently, within the first timer interval
Next ==
    \/ Setup
    \/ \E c \in Callers : ConnectCall(c)
    \/ ConnectNext(Callers)
    \/ CallerNext(Callers, SendOps)
    \/ TaskNext(CoreMessages, MaxFrames, CloseCodes)
    \/ CancelNext

Spec == Init /\ [][Next]_vars

\* SpecTimed: one caller, calling one call after the other on an instance it connects
\* once, and the timers, over two receive timeouts; the three sends differ in nothing
\* the timers depend on, nor do the messages or the close codes, and one of each
\* stands for all here
NextTimed ==
    \/ Setup
    \/ websocket = None /\ ConnectCall(1)
    \/ ConnectNext({1})
    \/ CallerNext({1}, {"send_audio_data"})
    \/ TaskNext({OutputMessage("hello", FALSE, <<>>)}, MaxFrames, {1006})
    \/ CancelNext
    \/ TimerNext

SpecTimed == Init /\ [][NextTimed]_vars

\* SpecDispatch: an instance connected once and never closed by its caller, and every
\* kind of inbound message
NextDispatch ==
    \/ Setup
    \/ websocket = None /\ ConnectCall(1)
    \/ ConnectNext({1})
    \/ TaskNext(DispatchMessages, MaxDispatchFrames, {1000})

SpecDispatch == Init /\ [][NextDispatch]_vars

\* SpecConnect: the steps of connect() calls that may overlap, after the callbacks are
\* registered: the tasks they create run up to their first await and no further, and a
\* connection the server closes is noticed by the send of the init frame alone
NextConnect ==
    \/ Setup
    \/ \E c \in Callers : ops > 0 /\ ConnectCall(c)
    \/ ConnectNext(Callers)
    \/ \E k \in Transports : TasksRun(k)
    \/ \E t \in Transports : ServerCloses(t, 1006)

SpecConnect == Init /\ [][NextConnect]_vars

\* SpecRegistry: set_callbacks alone, with every combination of arguments
NextRegistry == \E a \in SlotArgs : set_callbacks(a)

SpecRegistry == Init /\ [][NextRegistry]_vars

\* SpecReconnect: one caller that connects, and connects again after the connection was
\* lost, with the timers, no inbound message and no close()
NextReconnect ==
    \/ Setup
    \/ ConnectCall(1)
    \/ ConnectNext({1})
    \/ \E k \in Transports : TasksRun(k) \/ ReceiveClosed(k) \/ ReceiveCallbackReturns(k)
    \/ \E t \in Transports : ServerCloses(t, 1006)
    \/ TimerNext

SpecReconnect == Init /\ [][NextReconnect]_vars

----------------------------------------------------------------------------
(* Properties. *)

\* the invocations made for the message at place n of inbox, in order
CallsFor(n) == SelectSeq(cbLog, LAMBDA e : e.n = n)
\* the invocations of one slot on connection t
CallsOn(slot, t) == SelectSeq(cbLog, LAMBDA e : e.slot = slot /\ e.ws = t)
\* the invocations the last step made
NewCalls == SubSeq(cbLog', Len(cbLog) + 1, Len(cbLog'))
\* the session on connection t is Open: its init frame is out, and neither close() nor
\* the detection of a closure has begun
OpenOn(t) == is_connected /\ transports[t].init_done /\ ~transports[t].close_called

\* C1: a connect() that starts while the session is Connecting or Open has no effect:
\* no call that started then gets past the guard of connect().
C1_LateConnectIsNoOp ==
    \A c \in Callers : ~(callers[c].op = "connect" /\ callers[c].busy)

\* C2: once a close() has returned (and no connect() was called since), a send call
\* returns at its guard: it hands no frame to the websocket and cannot raise.
C2_SendAfterCloseIsNoOp ==
    \A c \in Callers : ~(callers[c].op \in SendOps /\ callers[c].late)

\* C3: the init frame is the first frame of a connection, and every other frame is
\* handed to a connection only while its session is Open.
C3_InitFirst ==
    \A t \in Transports : transports[t].wire # <<>> => transports[t].wire[1] = "init"
C3_HandedWhileOpen ==
    \A t \in Transports :
        transports[t].status # "none" /\ transports'[t].wire # transports[t].wire
            => OpenOn(t)
C3_FramesOnlyWhileOpen == []C3_InitFirst /\ [][C3_HandedWhileOpen]_vars

\* the receive loop k learns that its probe failed (resp. succeeded) in this step
ProbeFails(k) ==
    rx[k].pc = "probe" /\ ~rx[k].cancel /\ rx'[k].pc # "probe" /\ ~SendSucceeds(rx[k].ws)
ProbeSucceeds(k) ==
    rx[k].pc = "probe" /\ ~rx[k].cancel /\ rx'[k].pc # "probe" /\ SendSucceeds(rx[k].ws)

\* C4: when the probe sent after a receive timeout fails, the session becomes Closed,
\* the loop stops and exactly one registered callback, closed or error, is invoked.
C4_FailedProbeStep ==
    \A k \in Transports :
        ProbeFails(k) /\ is_connected /\ on_close_callback # None /\ on_error_callback # None
            => /\ ~is_connected'
               /\ rx'[k].pc = "done"
               /\ Len(NewCalls) = 1
               /\ NewCalls[1].slot \in {"closed", "error"}
C4_FailedProbeReportsOnce == [][C4_FailedProbeStep]_vars

\* C5: when the probe sent after a receive timeout succeeds, the session stays as it
\* was, no callback is invoked, and the loop of an Open session is at its next
\* receive, with a fresh timeout: so after every one of consecutive timeouts.
C5_ProbedStep ==
    \A k \in Transports :
        ProbeSucceeds(k)
            => /\ is_connected' = is_connected
               /\ cbLog' = cbLog
               /\ is_connected => /\ rx'[k].pc = "recv"
                                  /\ rx'[k].deadline = now + RecvTimeout
C5_TimeoutIsNotFatal == [][C5_ProbedStep]_vars
\* a loop is back at recv() after two timeouts in a row, each with a successful probe,
\* the session Open and no callback invoked since the opened one
C5_Witness ==
    \E k \in Transports :
        /\ rx[k].pc = "recv" /\ rx[k].deadline > now /\ now >= 2 * RecvTimeout
        /\ hb[k].pc = "sleep"
        /\ is_connected /\ OpenOn(rx[k].ws)
        /\ transports[rx[k].ws].status = "open"
        /\ transports[rx[k].ws].wire[Len(transports[rx[k].ws].wire)] = "heartbeat"
        /\ inbox = <<>>
        /\ on_close_callback # None /\ on_error_callback # None /\ cbLog = <<OpenedCall(k)>>

\* the connect() that opened connection t is over
ConnectOver(t) == \A c \in Callers : ~(callers[c].op = "connect" /\ callers[c].ws = t)

\* C6: when the server closes connection t with a code, the closed callback is invoked
\* once, with that code, and after it no callback is invoked for that session (here:
\* a session whose connect() is over), be it by a send that was in flight.
C6_ClosedOnce ==
    \A t \in Transports :
        /\ Len(CallsOn("closed", t)) <= 1
        /\ \A i \in 1..Len(CallsOn("closed", t)) : CallsOn("closed", t)[i].code = transports[t].code
C6_SilentAfterClosed ==
    \A t \in Transports :
        CallsOn("closed", t) # <<>> /\ ConnectOver(t)
            => \A i \in 1..Len(NewCalls) : NewCalls[i].ws # t
C6_ClosedIsLast == []C6_ClosedOnce /\ [][C6_SilentAfterClosed]_vars

\* the receive loops are done with the message at place n of inbox
Handled(n) ==
    /\ n \in 1..Len(inbox)
    /\ \A k \in Transports : rx[k].n = n => rx[k].pc \notin Awaiting
\* the receive loop of the current connection waits in recv() on an open connection
LoopRunning ==
    /\ is_connected /\ receive_task # None
    /\ rx[receive_task].pc = "recv" /\ transports[rx[receive_task].ws].status = "open"
\* what a callback was invoked with
Invocation(slot, text, bytes) == [slot |-> slot, text |-> text, bytes |-> bytes]
Invocations(calls) ==
    [i \in 1..Len(calls) |-> Invocation(calls[i].slot, calls[i].text, calls[i].bytes)]
AllRegistered ==
    on_text_callback # None /\ on_audio_callback # None /\ on_error_callback # None
\* a well-formed frame has invoked a handler, or is one that has none
Dispatched(n) == inbox[n].type # Absent \/ CallsFor(n) # <<>>

\* C7: for an inbound sequence a, m, b with a and b well-formed and m malformed, the
\* error callback is invoked exactly once for m, a and b are dispatched to their
\* handlers, and afterwards the session is Open with the receive loop running.
C7_OneErrorPerMalformed ==
    ( /\ Len(inbox) = 3 /\ Handled(3) /\ AllRegistered
      /\ inbox[1] \in WellFormed /\ inbox[2] \in Malformed /\ inbox[3] \in WellFormed
      /\ transports[websocket].status = "open" )
        => /\ Len(CallsFor(2)) = 1
           /\ CallsFor(2)[1].slot = "error"
           /\ Dispatched(1) /\ Dispatched(3)
           /\ LoopRunning

\* a vendor error frame {error: {code, message}}
VendorError(m) ==
    m.json = "object" /\ m.output = "absent" /\ m.error = "object"
        /\ m.code # Absent /\ m.message # Absent
\* C8: for every vendor error frame {error: {code, message}} the error callback, when
\* registered, is invoked exactly once, with "code: message"; receiving the frame and
\* the callback's completion leave an Open session Open, and after the callback the
\* receive loop is at its next recv().
C8_InvokedOnce ==
    \A n \in 1..Len(inbox) :
        VendorError(inbox[n]) /\ on_error_callback # None
            => Invocations(CallsFor(n))
                   = <<Invocation("error", inbox[n].code \o ": " \o inbox[n].message, <<>>)>>
C8_ErrorStep ==
    \A k \in Transports :
        /\ ( /\ rx[k].pc = "recv" /\ rx'[k].pc # "recv" /\ Len(inbox') > Len(inbox)
             /\ VendorError(inbox'[Len(inbox')]) /\ on_error_callback # None )
               => is_connected' = is_connected /\ rx'[k].pc = "error_cb"
        /\ ( rx[k].pc = "error_cb" /\ ~rx[k].cancel /\ rx'[k].pc # "error_cb" /\ is_connected )
               => is_connected' /\ rx'[k].pc = "recv" /\ cbLog' = cbLog
C8_VendorErrorReported == []C8_InvokedOnce /\ [][C8_ErrorStep]_vars
\* {"error": {"code": "E1", "message": "bad audio"}} was reported, and the loop has
\* received and dispatched the next frame of the Open session
C8_Witness ==
    /\ Len(inbox) = 2 /\ inbox[1] = ErrorMessage("E1", "bad audio") /\ Handled(2)
    /\ inbox[2] = OutputMessage("hello", FALSE, <<>>)
    /\ Invocations(CallsFor(1)) = <<Invocation("error", "E1: bad audio", <<>>)>>
    /\ Invocations(CallsFor(2)) = <<Invocation("text", "hello", <<>>)>>
    /\ LoopRunning

\* b"hello"
Hello == <<104, 101, 108, 108, 111>>
\* the invocations the frame's fields call for: text, then audio (with audio, when the
\* field is there; else when it is there and not empty), or error, or none
Routed(m, with) ==
    (IF m.text # Absent THEN <<Invocation("text", m.text, <<>>)>> ELSE <<>>)
    \o (IF with THEN <<Invocation("audio", "", IF m.audio = AudioHello THEN Hello ELSE <<>>)>>
        ELSE <<>>)
    \o (IF m.error = "object"
        THEN <<Invocation("error", m.code \o ": " \o m.message, <<>>)>> ELSE <<>>)
\* the callbacks invoked for frames are invoked in the order of the frames
InArrivalOrder ==
    \A i, j \in 1..Len(cbLog) : i < j /\ cbLog[i].n > 0 /\ cbLog[j].n > 0 => cbLog[i].n <= cbLog[j].n

C10_SlotKept(old, new, arg) == IF arg = None THEN new = old ELSE new = arg
C10_SetStep ==
    \A a \in SlotArgs :
        set_callbacks(a)
            => /\ C10_SlotKept(on_text_callback, on_text_callback', a.on_text)
               /\ C10_SlotKept(on_audio_callback, on_audio_callback', a.on_audio)
               /\ C10_SlotKept(on_error_callback, on_error_callback', a.on_error)
               /\ C10_SlotKept(on_close_callback, on_close_callback', a.on_close)
               /\ C10_SlotKept(on_open_callback, on_open_callback', a.on_open)
C10_OmittedSlotsKept == [][C10_SetStep]_vars

\* str(e) of what a connect() at position pc fails with
FailureText(pc) ==
    CASE pc = "connecting" -> "connect failed"
      [] pc = "init" -> "connection closed"
      [] OTHER -> "callback failed"

\* C11: when a connect() fails, at websockets.connect, at the send of the init frame or
\* in the opened callback, is_connected is set False and the error callback, when
\* registered, is invoked once with the text of the failure; then the call raises,
\* with no further invocation and its session still Closed (the instance is connected
\* only if on a connection that another connect() opened).
C11_FailStep ==
    \A c \in Callers :
        ( /\ callers[c].op = "connect" /\ callers[c].pc \in {"connecting", "init", "open_cb"}
          /\ callers'[c].pc \in {"error_cb", "raised"} )
            => /\ ~is_connected'
               /\ on_error_callback # None
                    => /\ callers'[c].pc = "error_cb"
                       /\ Len(NewCalls) = 1
                       /\ NewCalls[1].slot = "error"
                       /\ NewCalls[1].text = FailureText(callers[c].pc)
               /\ on_error_callback = None => callers'[c].pc = "raised" /\ cbLog' = cbLog
C11_RaiseStep ==
    \A c \in Callers :
        callers[c].op = "connect" /\ callers[c].pc = "error_cb" /\ callers'[c] # callers[c]
            => /\ callers'[c].pc = "raised" /\ cbLog' = cbLog
               /\ is_connected' => websocket' # callers[c].ws
C11_FailedConnectReported == [][C11_FailStep /\ C11_RaiseStep]_vars
\* a connect() has raised after its opened callback failed, the failure reported once
C11_Witness ==
    /\ callers[1].pc = "raised" /\ ~is_connected /\ ops = 2
    /\ Invocations(cbLog) = <<Invocation("opened", "", <<>>),
                              Invocation("error", "callback failed", <<>>)>>

\* C12: when the send awaited by send_audio_data, send_image_frame or send_end_signal
\* fails on the connection of an Open session, the call does not raise, the error
\* callback (registered) is invoked exactly once, and is_connected, the callbacks and
\* the two tasks are left as they were.
C12_SendFailsStep ==
    \A c \in Callers :
        ( /\ callers[c].op \in SendOps /\ callers[c].pc = "send" /\ callers'[c].pc # "send"
          /\ ~SendSucceeds(callers[c].ws)
          /\ OpenOn(callers[c].ws) /\ websocket = callers[c].ws /\ ConnectOver(callers[c].ws)
          /\ on_error_callback # None )
            => /\ callers'[c].pc # "raised"
               /\ Len(NewCalls) = 1
               /\ NewCalls[1].slot = "error"
               /\ is_connected' /\ slots' = slots /\ tasks' = tasks
               /\ heartbeat_task' = heartbeat_task /\ receive_task' = receive_task
C12_SendFailureReported == [][C12_SendFailsStep]_vars

\* a send awaited by a caller, by the heartbeat loop or by the receive loop's probe
\* completes normally in this step, or recv() returns a message
SendCompletes ==
    \/ \E c \in Callers :
        /\ callers[c].op = "connect" /\ callers[c].pc = "init" /\ callers'[c].pc # "init"
        /\ SendSucceeds(callers[c].ws)
    \/ \E c \in Callers :
        /\ callers[c].op \in SendOps /\ callers[c].pc = "send" /\ callers'[c].pc # "send"
        /\ SendSucceeds(callers[c].ws)
    \/ \E k \in Transports :
        /\ hb[k].pc = "send" /\ ~hb[k].cancel /\ hb'[k].pc # "send"
        /\ SendSucceeds(hb[k].ws)
    \/ \E k \in Transports : ProbeSucceeds(k)
MessageReceived == Len(inbox') > Len(inbox)

\* C13: every successful send (init, audio, image, end signal, the heartbeat loop's
\* ping, the receive loop's probe) and every successful receive of a connected
\* session sets last_activity_time to the current time.
C13_ActivityStep ==
    is_connected /\ (SendCompletes \/ MessageReceived) => last_activity_time' = now'
C13_ActivityRecorded == [][C13_ActivityStep]_vars

\* C14: when the ping sent by the heartbeat loop fails, the loop ends, whether or not
\* the session is still marked connected: no further sleep, check or send.
C14_PingFailsStep ==
    \A k \in Transports :
        ( /\ hb[k].pc = "send" /\ ~hb[k].cancel /\ hb'[k].pc # "send"
          /\ ~SendSucceeds(hb[k].ws) )
            => hb'[k].pc = "done"
C14_FailedPingEndsLoop == [][C14_PingFailsStep]_vars

\* a task that the event loop has run and that has not ended
Live(task) == task.pc \notin {"none", "start", "done"}

\* C15: when connect() raises, no heartbeat or receive task created by that call is
\* running afterwards (a task the event loop has not run yet ends at its first step,
\* and is not counted as running).
C15_RaiseStep ==
    \A c \in Callers :
        ( /\ callers[c].op = "connect" /\ callers'[c].pc = "raised"
          /\ callers[c].ws # None )
            => ~Live(hb'[callers[c].ws]) /\ ~Live(rx'[callers[c].ws])
C15_NoTasksOfFailedConnect == [][C15_RaiseStep]_vars

\* a task has been cancelled or has ended
Stopped(task) == task.cancel \/ task.pc \in {"none", "done"}

\* C16: when a close() of an open session completes, also one whose websocket.close()
\* failed, both tasks have been cancelled, the connection's close has been called and
\* the session is closed (is_connected is False).
C16_CloseStep ==
    \A c \in Callers :
        ( /\ callers[c].op = "close" /\ callers[c].pc = "closing"
          /\ callers'[c].pc = "returned"
          /\ transports[callers[c].ws].init_done
          /\ \A d \in Callers : callers[d].op # "connect" )
            => /\ Stopped(hb'[callers[c].ws]) /\ Stopped(rx'[callers[c].ws])
               /\ transports'[callers[c].ws].close_called
               /\ ~is_connected'
C16_CloseCompletes == [][C16_CloseStep]_vars

\* the sends in flight on connection t: the init frame of connect(), the callers' sends,
\* the heartbeat loop's ping, the receive loop's probe
SendsInFlight(t) ==
    Cardinality({c \in Callers : callers[c].pc \in {"init", "send"} /\ callers[c].ws = t})
    + Cardinality({k \in Transports : hb[k].pc = "send" /\ hb[k].ws = t})
    + Cardinality({k \in Transports : rx[k].pc = "probe" /\ rx[k].ws = t})

\* C17: at most one send is in flight on a connection at any time.
C17_SendsSerialized == \A t \in Transports : SendsInFlight(t) <= 1

\* C18: a ping whose send has started runs to completion before the heartbeat loop
\* stops, also when close() cancels the task meanwhile: the loop leaves its send only
\* with the send completed, which on an open connection records the activity.
C18_PingStep ==
    \A k \in Transports :
        ( /\ hb[k].pc = "send" /\ hb'[k].pc # "send"
          /\ SendSucceeds(hb[k].ws) )
            => last_activity_time' = now
C18_PingNotInterrupted == [][C18_PingStep]_vars

\* connect() has returned or raised for the current connection, whose init frame was sent
Connected ==
    /\ is_connected /\ websocket # None
    /\ transports[websocket].init_done /\ ConnectOver(websocket)

\* C19: once connect() has returned, a session that is marked connected has its receive
\* loop running: nothing ends the loop and leaves is_connected True.
C19_ConnectedHasReceiveLoop ==
    Connected => receive_task = websocket /\ rx[receive_task].pc \notin {"none", "done"}

\* C20: the heartbeat loop of a connection whose closure by the server has been
\* reported never runs against a later connection: it sends no ping on the connection
\* of a new connect().
C20_LoopsKeepTheirConnection ==
    \A k \in Transports :
        CallsOn("closed", k) # <<>> /\ hb[k].pc = "send" => hb[k].ws = k

====
